---- MODULE Spec2Model ----
(***************************************************************************)
(* Model of the MySQL dialect of the schema inspector                      *)
(* (src/lib/dialects/mysql.ts).                                            *)
(*                                                                         *)
(* The inspector holds a knex handle and nothing else.  Every method       *)
(* builds a query with the knex builder; a builder is lazy and is sent to  *)
(* the connection only when it is awaited.  The model therefore has three  *)
(* parts: the catalog of the MySQL server (information_schema and the key  *)
(* listing of SHOW KEYS), the execution of a built query against that      *)
(* catalog, and one invocation of an inspector method at a time, split at  *)
(* its await.                                                              *)
(*                                                                         *)
(* Modelling conventions:                                                  *)
(*  - SQL result sets carry no ORDER BY, so a result is the SET of its     *)
(*    rows and .first() picks any one of them;                             *)
(*  - column identifiers are matched case-insensitively (MySQL), and a     *)
(*    result row is keyed by the identifier as the query wrote it;         *)
(*  - SQL NULL and the JavaScript undefined are the strings NULL and       *)
(*    Undefined;                                                           *)
(*  - the connection goes down and comes back only between invocations.    *)
(***************************************************************************)
EXTENDS Naturals, FiniteSets, Sequences, TLC

VARIABLES catalog, connUp, pc, op, args, inflight, issued, outcome

vars == <<catalog, connUp, pc, op, args, inflight, issued, outcome>>

\* ------------------------------------------------------------------------
\* Bounds of the catalogs explored
\* ------------------------------------------------------------------------
MaxRelations == 2
MaxKeys == 2

NULL == "NULL"
Undefined == "undefined"

\* this.knex.client.database(): the schema selected on the connection
CurrentDb == "db"

RelNames == {"users", "orgs"}
ColNames == {"id", "org_id"}
\* the relations that may exist: both names in the current schema, one
\* homonym in another schema of the same server
RelSlots == {<<"db", "users">>, <<"db", "orgs">>, <<"other", "users">>}
RelTypes == {"BASE TABLE", "VIEW"}

\* ------------------------------------------------------------------------
\* The server's catalog
\* ------------------------------------------------------------------------
RelRow(s, n, ty) == [TABLE_SCHEMA |-> s, TABLE_NAME |-> n, TABLE_TYPE |-> ty]
ColRow(s, n, c) == [TABLE_SCHEMA |-> s, TABLE_NAME |-> n, COLUMN_NAME |-> c]
KeyRow(s, cn, n, c, rt, rc) ==
  [CONSTRAINT_SCHEMA |-> s, CONSTRAINT_NAME |-> cn, TABLE_SCHEMA |-> s,
   TABLE_NAME |-> n, COLUMN_NAME |-> c,
   REFERENCED_TABLE_NAME |-> rt, REFERENCED_COLUMN_NAME |-> rc]

\* MySQL's default name of the first foreign key of a table
FkName(n) == IF n = "users" THEN "users_ibfk_1" ELSE "orgs_ibfk_1"

AllRelRows == {RelRow(sl[1], sl[2], ty) : sl \in RelSlots, ty \in RelTypes}

RelSets ==
  {R \in SUBSET AllRelRows :
     /\ Cardinality(R) <= MaxRelations
     /\ \A a, b \in R :
          (a.TABLE_SCHEMA = b.TABLE_SCHEMA /\ a.TABLE_NAME = b.TABLE_NAME)
            => a = b}

\* every relation has at least one column
ColSets(R) ==
  {C \in SUBSET {ColRow(r.TABLE_SCHEMA, r.TABLE_NAME, c) : r \in R, c \in ColNames} :
     \A r \in R : \E c \in C : /\ c.TABLE_SCHEMA = r.TABLE_SCHEMA
                               /\ c.TABLE_NAME = r.TABLE_NAME}

BaseCols(R, C) ==
  {c \in C : RelRow(c.TABLE_SCHEMA, c.TABLE_NAME, "BASE TABLE") \in R}

PossibleKeys(R, C) ==
  {KeyRow(c.TABLE_SCHEMA, "PRIMARY", c.TABLE_NAME, c.COLUMN_NAME, NULL, NULL) :
     c \in BaseCols(R, C)}
  \cup
  UNION {{KeyRow(c.TABLE_SCHEMA, FkName(c.TABLE_NAME), c.TABLE_NAME,
                  c.COLUMN_NAME, t.TABLE_NAME, t.COLUMN_NAME) :
             t \in {x \in BaseCols(R, C) :
                      x.TABLE_SCHEMA = c.TABLE_SCHEMA /\ x # c}} :
           c \in BaseCols(R, C)}

IsFk(k) == k.CONSTRAINT_NAME # "PRIMARY"

\* at most one foreign key per table, constraint names unique in a schema
KeySets(R, C) ==
  {K \in SUBSET PossibleKeys(R, C) :
     /\ Cardinality(K) <= MaxKeys
     /\ \A a, b \in K :
          (IsFk(a) /\ IsFk(b) /\ a.CONSTRAINT_SCHEMA = b.CONSTRAINT_SCHEMA
             /\ a.TABLE_NAME = b.TABLE_NAME) => a = b}

Catalogs ==
  UNION {UNION {{[rels |-> R, cols |-> C, keys |-> K] : K \in KeySets(R, C)} :
                  C \in ColSets(R)} : R \in RelSets}

\* ------------------------------------------------------------------------
\* The catalog as the server presents it
\* ------------------------------------------------------------------------
PrimaryCols(cat, s, n) ==
  {k.COLUMN_NAME : k \in {x \in cat.keys : /\ x.CONSTRAINT_SCHEMA = s
                                           /\ x.TABLE_NAME = n
                                           /\ x.CONSTRAINT_NAME = "PRIMARY"}}

\* information_schema.tables
InfoTables(cat) ==
  {[TABLE_SCHEMA |-> r.TABLE_SCHEMA, TABLE_NAME |-> r.TABLE_NAME,
    TABLE_TYPE |-> r.TABLE_TYPE,
    ENGINE |-> IF r.TABLE_TYPE = "BASE TABLE" THEN "InnoDB" ELSE NULL,
    TABLE_COLLATION |-> IF r.TABLE_TYPE = "BASE TABLE" THEN "utf8mb4_general_ci" ELSE NULL,
    TABLE_COMMENT |-> ""] : r \in cat.rels}

\* information_schema.columns
InfoColumns(cat) ==
  {[TABLE_SCHEMA |-> c.TABLE_SCHEMA, TABLE_NAME |-> c.TABLE_NAME,
    COLUMN_NAME |-> c.COLUMN_NAME, COLUMN_DEFAULT |-> NULL,
    DATA_TYPE |-> "int", CHARACTER_MAXIMUM_LENGTH |-> NULL,
    IS_NULLABLE |-> IF c.COLUMN_NAME \in PrimaryCols(cat, c.TABLE_SCHEMA, c.TABLE_NAME)
                    THEN "NO" ELSE "YES",
    COLUMN_KEY |-> IF c.COLUMN_NAME \in PrimaryCols(cat, c.TABLE_SCHEMA, c.TABLE_NAME)
                   THEN "PRI" ELSE NULL,
    EXTRA |-> NULL, COLLATION_NAME |-> NULL, COLUMN_COMMENT |-> ""] :
     c \in cat.cols}

\* information_schema.key_column_usage
InfoKeyColumnUsage(cat) == cat.keys

\* information_schema.referential_constraints: one row per foreign key
InfoReferentialConstraints(cat) ==
  {[CONSTRAINT_SCHEMA |-> k.CONSTRAINT_SCHEMA, CONSTRAINT_NAME |-> k.CONSTRAINT_NAME,
    TABLE_NAME |-> k.TABLE_NAME, UPDATE_RULE |-> "RESTRICT",
    DELETE_RULE |-> "RESTRICT", MATCH_OPTION |-> "NONE"] :
     k \in {x \in cat.keys : IsFk(x)}}

\* the row a LEFT JOIN supplies when nothing matches
NullKeyRow ==
  [CONSTRAINT_SCHEMA |-> NULL, CONSTRAINT_NAME |-> NULL, TABLE_SCHEMA |-> NULL,
   TABLE_NAME |-> NULL, COLUMN_NAME |-> NULL,
   REFERENCED_TABLE_NAME |-> NULL, REFERENCED_COLUMN_NAME |-> NULL]
NullRefRow ==
  [CONSTRAINT_SCHEMA |-> NULL, CONSTRAINT_NAME |-> NULL, TABLE_NAME |-> NULL,
   UPDATE_RULE |-> NULL, DELETE_RULE |-> NULL, MATCH_OPTION |-> NULL]

\* SQL equality: never true of NULL
SqlEq(a, b) == a # NULL /\ b # NULL /\ a = b

\* the join conditions of columnInfo
FkJoinOn(c, fk) ==
  /\ SqlEq(fk.TABLE_NAME, fk.TABLE_NAME)
  /\ SqlEq(fk.COLUMN_NAME, c.COLUMN_NAME)
  /\ SqlEq(fk.CONSTRAINT_SCHEMA, c.TABLE_SCHEMA)

RcJoinOn(cfk, rc) ==
  /\ SqlEq(rc.TABLE_NAME, cfk[2].TABLE_NAME)
  /\ SqlEq(rc.CONSTRAINT_NAME, cfk[2].CONSTRAINT_NAME)
  /\ SqlEq(rc.CONSTRAINT_SCHEMA, cfk[2].CONSTRAINT_SCHEMA)

\* c LEFT JOIN fk: every column row, with each key row that matches it or
\* with NULLs when none does
ColumnsLeftJoinFk(cat) ==
  UNION {IF \E fk \in InfoKeyColumnUsage(cat) : FkJoinOn(c, fk)
         THEN {<<c, fk>> : fk \in {x \in InfoKeyColumnUsage(cat) : FkJoinOn(c, x)}}
         ELSE {<<c, NullKeyRow>>} : c \in InfoColumns(cat)}

\* (c LEFT JOIN fk) LEFT JOIN rc
ColumnsLeftJoinFkRc(cat) ==
  UNION {IF \E rc \in InfoReferentialConstraints(cat) : RcJoinOn(cfk, rc)
         THEN {<<cfk, rc>> : rc \in {x \in InfoReferentialConstraints(cat) :
                                       RcJoinOn(cfk, x)}}
         ELSE {<<cfk, NullRefRow>>} : cfk \in ColumnsLeftJoinFk(cat)}

\* the FROM clause of columnInfo, a row per (c, fk, rc) combination with
\* the columns under their qualified names
ColumnInfoFrom(cat) ==
  {LET c == j[1][1]
       fk == j[1][2]
       rc == j[2]
   IN  ("c.TABLE_SCHEMA" :> c.TABLE_SCHEMA) @@ ("c.TABLE_NAME" :> c.TABLE_NAME)
       @@ ("c.COLUMN_NAME" :> c.COLUMN_NAME) @@ ("c.COLUMN_DEFAULT" :> c.COLUMN_DEFAULT)
       @@ ("c.DATA_TYPE" :> c.DATA_TYPE)
       @@ ("c.CHARACTER_MAXIMUM_LENGTH" :> c.CHARACTER_MAXIMUM_LENGTH)
       @@ ("c.IS_NULLABLE" :> c.IS_NULLABLE) @@ ("c.COLUMN_KEY" :> c.COLUMN_KEY)
       @@ ("c.EXTRA" :> c.EXTRA) @@ ("c.COLLATION_NAME" :> c.COLLATION_NAME)
       @@ ("c.COLUMN_COMMENT" :> c.COLUMN_COMMENT)
       @@ ("fk.REFERENCED_TABLE_NAME" :> fk.REFERENCED_TABLE_NAME)
       @@ ("fk.REFERENCED_COLUMN_NAME" :> fk.REFERENCED_COLUMN_NAME)
       @@ ("fk.CONSTRAINT_NAME" :> fk.CONSTRAINT_NAME)
       @@ ("rc.UPDATE_RULE" :> rc.UPDATE_RULE) @@ ("rc.DELETE_RULE" :> rc.DELETE_RULE)
       @@ ("rc.MATCH_OPTION" :> rc.MATCH_OPTION) :
     j \in ColumnsLeftJoinFkRc(cat)}

\* SHOW KEYS FROM t: the indexes of t; a foreign key gets an index of its
\* own, named after the constraint
ShowKeys(cat, t) ==
  {[Table |-> k.TABLE_NAME, Key_name |-> k.CONSTRAINT_NAME,
    Column_name |-> k.COLUMN_NAME] :
     k \in {x \in cat.keys : x.CONSTRAINT_SCHEMA = CurrentDb /\ x.TABLE_NAME = t}}

\* ------------------------------------------------------------------------
\* The knex query builder and the execution of a built query
\* ------------------------------------------------------------------------
TablesFrom == "information_schema.tables"
ColumnsFrom == "information_schema.columns"
JoinFrom == "INFORMATION_SCHEMA.COLUMNS as c leftJoin fk leftJoin rc"
ShowKeysFrom == "SHOW KEYS FROM ??"

\* a builder: the source, the ?? binding of a raw query, the selected
\* identifiers, whether it is a count(*) as count, the equality filters
\* and whether .first() was applied
Builder(from, ident, select, count, where, first) ==
  [from |-> from, ident |-> ident, select |-> select, count |-> count,
   where |-> where, first |-> first]

NoQuery == Builder("none", NULL, {}, FALSE, {}, FALSE)

\* the methods every builder object carries
BuilderMethods ==
  {"select", "count", "from", "where", "andWhere", "leftJoin", "first", "then"}

\* reading a property off a builder object
BuilderProp(q, name) == IF name \in BuilderMethods THEN "function" ELSE Undefined

\* JavaScript truthiness of the values that occur
Truthy(v) == v \notin {Undefined, NULL, ""}

\* MySQL matches column identifiers without regard to case
Upper(id) ==
  CASE id = "table_type" -> "TABLE_TYPE"
    [] id = "table_schema" -> "TABLE_SCHEMA"
    [] id = "table_name" -> "TABLE_NAME"
    [] id = "column_name" -> "COLUMN_NAME"
    [] id = "c.column_name" -> "c.COLUMN_NAME"
    [] OTHER -> id

\* the key of a selected column in the result row: the identifier as
\* written, without its table qualifier
Label(id) ==
  CASE id = "c.TABLE_NAME" -> "TABLE_NAME"
    [] id = "c.COLUMN_NAME" -> "COLUMN_NAME"
    [] id = "c.COLUMN_DEFAULT" -> "COLUMN_DEFAULT"
    [] id = "c.DATA_TYPE" -> "DATA_TYPE"
    [] id = "c.CHARACTER_MAXIMUM_LENGTH" -> "CHARACTER_MAXIMUM_LENGTH"
    [] id = "c.IS_NULLABLE" -> "IS_NULLABLE"
    [] id = "c.COLUMN_KEY" -> "COLUMN_KEY"
    [] id = "c.EXTRA" -> "EXTRA"
    [] id = "c.COLLATION_NAME" -> "COLLATION_NAME"
    [] id = "c.COLUMN_COMMENT" -> "COLUMN_COMMENT"
    [] id = "fk.REFERENCED_TABLE_NAME" -> "REFERENCED_TABLE_NAME"
    [] id = "fk.REFERENCED_COLUMN_NAME" -> "REFERENCED_COLUMN_NAME"
    [] id = "fk.CONSTRAINT_NAME" -> "CONSTRAINT_NAME"
    [] id = "rc.UPDATE_RULE" -> "UPDATE_RULE"
    [] id = "rc.DELETE_RULE" -> "DELETE_RULE"
    [] id = "rc.MATCH_OPTION" -> "MATCH_OPTION"
    [] OTHER -> id

SourceRows(cat, q) ==
  CASE q.from = TablesFrom -> InfoTables(cat)
    [] q.from = ColumnsFrom -> InfoColumns(cat)
    [] q.from = JoinFrom -> ColumnInfoFrom(cat)
    [] q.from = ShowKeysFrom -> ShowKeys(cat, q.ident)
    [] OTHER -> {}

SourceFields(q) ==
  CASE q.from = TablesFrom ->
         {"TABLE_SCHEMA", "TABLE_NAME", "TABLE_TYPE", "ENGINE",
          "TABLE_COLLATION", "TABLE_COMMENT"}
    [] q.from = ColumnsFrom ->
         {"TABLE_SCHEMA", "TABLE_NAME", "COLUMN_NAME", "COLUMN_DEFAULT",
          "DATA_TYPE", "CHARACTER_MAXIMUM_LENGTH", "IS_NULLABLE", "COLUMN_KEY",
          "EXTRA", "COLLATION_NAME", "COLUMN_COMMENT"}
    [] q.from = JoinFrom ->
         {"c.TABLE_SCHEMA", "c.TABLE_NAME", "c.COLUMN_NAME", "c.COLUMN_DEFAULT",
          "c.DATA_TYPE", "c.CHARACTER_MAXIMUM_LENGTH", "c.IS_NULLABLE",
          "c.COLUMN_KEY", "c.EXTRA", "c.COLLATION_NAME", "c.COLUMN_COMMENT",
          "fk.REFERENCED_TABLE_NAME", "fk.REFERENCED_COLUMN_NAME",
          "fk.CONSTRAINT_NAME", "rc.UPDATE_RULE", "rc.DELETE_RULE",
          "rc.MATCH_OPTION"}
    [] q.from = ShowKeysFrom -> {"Table", "Key_name", "Column_name"}
    [] OTHER -> {}

Failure(code) == [kind |-> "error", code |-> code, rows |-> {}]
Rows(rs) == [kind |-> "rows", code |-> "", rows |-> rs]

Matching(cat, q) ==
  {r \in SourceRows(cat, q) : \A w \in q.where : r[Upper(w[1])] = w[2]}

Project(r, select) ==
  [l \in {Label(id) : id \in select} |->
     r[Upper(CHOOSE id \in select : Label(id) = l)]]

\* what the server answers to a query it receives
Execute(cat, q) ==
  IF /\ q.from = ShowKeysFrom
     /\ ~\E r \in cat.rels : r.TABLE_SCHEMA = CurrentDb /\ r.TABLE_NAME = q.ident
  THEN Failure("ER_NO_SUCH_TABLE")
  ELSE IF \E id \in q.select \cup {w[1] : w \in q.where} :
            Upper(id) \notin SourceFields(q)
  THEN Failure("ER_BAD_FIELD_ERROR")
  ELSE IF q.count
  THEN Rows({[count |-> Cardinality(Matching(cat, q))]})
  ELSE Rows({Project(r, q.select) : r \in Matching(cat, q)})

\* reading a key off a result row
Get(r, key) == IF key \in DOMAIN r THEN r[key] ELSE Undefined

\* ------------------------------------------------------------------------
\* The queries the inspector builds
\* ------------------------------------------------------------------------
TablesQuery ==
  Builder(TablesFrom, NULL, {"table_namename"}, FALSE,
          {<<"table_type", "BASE TABLE">>, <<"table_schema", CurrentDb>>}, FALSE)

TableInfoQuery(table) ==
  Builder(TablesFrom, NULL,
          {"TABLE_NAME", "ENGINE", "TABLE_SCHEMA", "TABLE_COLLATION", "TABLE_COMMENT"},
          FALSE,
          {<<"table_schema", CurrentDb>>, <<"table_type", "BASE TABLE">>}
            \cup (IF Truthy(table) THEN {<<"table_name", table>>} ELSE {}),
          Truthy(table))

HasTableQuery(table) ==
  Builder(TablesFrom, NULL, {}, TRUE,
          {<<"table_schema", CurrentDb>>, <<"table_name", table>>}, TRUE)

\* columns() without the filter on the given table
ColumnsQuery_NoTableFilter(table) ==
  Builder(ColumnsFrom, NULL, {"table_name", "column_name"}, FALSE,
          {<<"table_schema", CurrentDb>>}, FALSE)

ColumnsQuery(table) ==
  Builder(ColumnsFrom, NULL, {"table_name", "column_name"}, FALSE,
          {<<"table_schema", CurrentDb>>}
            \cup (IF Truthy(table) THEN {<<"table_name", table>>} ELSE {}),
          FALSE)

\* columnInfo() without the filter on the current schema
ColumnInfoQuery_NoSchemaFilter(table, column) ==
  Builder(JoinFrom, NULL,
          {"c.TABLE_NAME", "c.COLUMN_NAME", "c.COLUMN_DEFAULT", "c.DATA_TYPE",
           "c.CHARACTER_MAXIMUM_LENGTH", "c.IS_NULLABLE", "c.COLUMN_KEY",
           "c.EXTRA", "c.COLLATION_NAME", "c.COLUMN_COMMENT",
           "fk.REFERENCED_TABLE_NAME", "fk.REFERENCED_COLUMN_NAME",
           "fk.CONSTRAINT_NAME", "rc.UPDATE_RULE", "rc.DELETE_RULE",
           "rc.MATCH_OPTION"},
          FALSE,
          (IF Truthy(table) THEN {<<"c.TABLE_NAME", table>>} ELSE {})
            \cup (IF Truthy(column) THEN {<<"c.column_name", column>>} ELSE {}),
          Truthy(column))

ColumnInfoQuery(table, column) ==
  Builder(JoinFrom, NULL,
          {"c.TABLE_NAME", "c.COLUMN_NAME", "c.COLUMN_DEFAULT", "c.DATA_TYPE",
           "c.CHARACTER_MAXIMUM_LENGTH", "c.IS_NULLABLE", "c.COLUMN_KEY",
           "c.EXTRA", "c.COLLATION_NAME", "c.COLUMN_COMMENT",
           "fk.REFERENCED_TABLE_NAME", "fk.REFERENCED_COLUMN_NAME",
           "fk.CONSTRAINT_NAME", "rc.UPDATE_RULE", "rc.DELETE_RULE",
           "rc.MATCH_OPTION"},
          FALSE,
          {<<"c.TABLE_SCHEMA", CurrentDb>>}
            \cup (IF Truthy(table) THEN {<<"c.TABLE_NAME", table>>} ELSE {})
            \cup (IF Truthy(column) THEN {<<"c.column_name", column>>} ELSE {}),
          Truthy(column))

HasColumnQuery(table, column) ==
  Builder(TablesFrom, NULL, {}, TRUE,
          {<<"table_schema", CurrentDb>>, <<"table_name", table>>,
           <<"column_name", column>>}, TRUE)

\* primary() without the WHERE Key_name = 'PRIMARY'
PrimaryQuery_AnyKey(table) ==
  Builder(ShowKeysFrom, table, {"Table", "Key_name", "Column_name"}, FALSE,
          {}, FALSE)

PrimaryQuery(table) ==
  Builder(ShowKeysFrom, table, {"Table", "Key_name", "Column_name"}, FALSE,
          {<<"Key_name", "PRIMARY">>}, FALSE)

\* ------------------------------------------------------------------------
\* Raw rows to result records, and the outcome of each method
\* ------------------------------------------------------------------------
Val(v) == [kind |-> "value", val |-> v]
Err(e) == [kind |-> "error", val |-> e]
NoOutcome == [kind |-> "none", val |-> ""]

ToTable(rawTable) ==
  [name |-> Get(rawTable, "TABLE_NAME"), schema |-> Get(rawTable, "TABLE_SCHEMA"),
   comment |-> Get(rawTable, "TABLE_COMMENT"),
   collation |-> Get(rawTable, "TABLE_COLLATION"),
   engine |-> Get(rawTable, "ENGINE")]

ToColumn(rawColumn) ==
  [name |-> Get(rawColumn, "COLUMN_NAME"), table |-> Get(rawColumn, "TABLE_NAME"),
   type |-> Get(rawColumn, "DATA_TYPE"),
   default_value |-> Get(rawColumn, "COLUMN_DEFAULT"),
   max_length |-> Get(rawColumn, "CHARACTER_MAXIMUM_LENGTH"),
   is_nullable |-> Get(rawColumn, "IS_NULLABLE"),
   is_primary_key |-> (Get(rawColumn, "CONSTRAINT_NAME") = "PRIMARY"),
   has_auto_increment |-> (Get(rawColumn, "EXTRA") = "auto_increment"),
   foreign_key_column |-> Get(rawColumn, "REFERENCED_COLUMN_NAME"),
   foreign_key_table |-> Get(rawColumn, "REFERENCED_TABLE_NAME"),
   comment |-> Get(rawColumn, "COLUMN_COMMENT")]

\* awaiting a builder on which .first() was applied yields one row of the
\* result, or undefined; reading a property of undefined throws
NoRow == Err("TypeError")

TablesOutcomes(resp) ==
  IF resp.kind = "error" THEN {Err(resp.code)}
  ELSE {Val({Get(r, "table_name") : r \in resp.rows})}

TableInfoOutcomes(resp, table) ==
  IF resp.kind = "error" THEN {Err(resp.code)}
  ELSE IF Truthy(table)
  THEN IF resp.rows = {} THEN {NoRow} ELSE {Val(ToTable(r)) : r \in resp.rows}
  ELSE {Val({ToTable(r) : r \in resp.rows})}

\* the builder is not awaited: count is read off the builder object
HasTableOutcome(table) == Val(Truthy(BuilderProp(HasTableQuery(table), "count")))

ToPair(r) == [table |-> Get(r, "table_name"), column |-> Get(r, "column_name")]

ColumnsOutcomes(resp) ==
  IF resp.kind = "error" THEN {Err(resp.code)}
  ELSE {Val({ToPair(r) : r \in resp.rows})}

ColumnInfoOutcomes(resp, column) ==
  IF resp.kind = "error" THEN {Err(resp.code)}
  ELSE IF Truthy(column)
  THEN IF resp.rows = {} THEN {NoRow} ELSE {Val(ToColumn(r)) : r \in resp.rows}
  ELSE {Val({ToColumn(r) : r \in resp.rows})}

HasColumnOutcome(table, column) ==
  Val(Truthy(BuilderProp(HasColumnQuery(table, column), "count")))

ColumnNameOf(r) == Get(r, "Column_name")

\* results[0][0]['Column_name']
PrimaryOutcomes(resp) ==
  IF resp.kind = "error" THEN {Err(resp.code)}
  ELSE IF resp.rows = {} THEN {NoRow}
  ELSE {Val(ColumnNameOf(r)) : r \in resp.rows}

\* ------------------------------------------------------------------------
\* The state machine: one invocation at a time, split at its await
\* ------------------------------------------------------------------------
TableArgs == RelNames \cup {Undefined}
ColumnArgs == ColNames \cup {Undefined}
Arg(t, c) == [table |-> t, column |-> c]

Init ==
  /\ catalog \in Catalogs
  /\ connUp = TRUE
  /\ pc = "idle"
  /\ op = "none"
  /\ args = Arg(Undefined, Undefined)
  /\ inflight = NoQuery
  /\ issued = 0
  /\ outcome = NoOutcome

\* the connection answers an awaited query, or fails
Respond(q) == IF connUp THEN Execute(catalog, q) ELSE Failure("ECONNREFUSED")

\* the method runs up to its await: the query goes to the connection
Await(name, a, q) ==
  /\ pc = "idle"
  /\ op' = name
  /\ args' = a
  /\ inflight' = q
  /\ issued' = issued + 1
  /\ pc' = "awaiting"
  /\ UNCHANGED <<catalog, connUp, outcome>>

\* the awaited query settles and the rest of the method runs
Settle(name, outs) ==
  /\ pc = "awaiting"
  /\ op = name
  /\ outcome' \in outs
  /\ inflight' = NoQuery
  /\ pc' = "done"
  /\ UNCHANGED <<catalog, connUp, op, args, issued>>

\* a method without an await runs to its return in one step
Sync(name, a, out) ==
  /\ pc = "idle"
  /\ op' = name
  /\ args' = a
  /\ outcome' = out
  /\ pc' = "done"
  /\ UNCHANGED <<catalog, connUp, inflight, issued>>

TablesCall == Await("tables", Arg(Undefined, Undefined), TablesQuery)
TablesReturn == Settle("tables", TablesOutcomes(Respond(inflight)))

TableInfoCall ==
  \E t \in TableArgs : Await("tableInfo", Arg(t, Undefined), TableInfoQuery(t))
TableInfoReturn ==
  Settle("tableInfo", TableInfoOutcomes(Respond(inflight), args.table))

HasTable ==
  \E t \in RelNames : Sync("hasTable", Arg(t, Undefined), HasTableOutcome(t))

ColumnsCall ==
  \E t \in TableArgs : Await("columns", Arg(t, Undefined), ColumnsQuery(t))
ColumnsReturn == Settle("columns", ColumnsOutcomes(Respond(inflight)))

ColumnInfoCall ==
  \E t \in TableArgs, c \in ColumnArgs :
     Await("columnInfo", Arg(t, c), ColumnInfoQuery(t, c))
ColumnInfoReturn ==
  Settle("columnInfo", ColumnInfoOutcomes(Respond(inflight), args.column))

HasColumn ==
  \E t \in RelNames, c \in ColNames :
     Sync("hasColumn", Arg(t, c), HasColumnOutcome(t, c))

PrimaryCall ==
  \E t \in RelNames : Await("primary", Arg(t, Undefined), PrimaryQuery(t))
PrimaryReturn == Settle("primary", PrimaryOutcomes(Respond(inflight)))

\* the caller takes the settled promise; the inspector keeps nothing
Finish ==
  /\ pc = "done"
  /\ pc' = "idle"
  /\ op' = "none"
  /\ args' = Arg(Undefined, Undefined)
  /\ issued' = 0
  /\ outcome' = NoOutcome
  /\ UNCHANGED <<catalog, connUp, inflight>>

\* the environment: the connection is lost or re-established
ConnectionLost ==
  /\ pc = "idle"
  /\ connUp
  /\ connUp' = FALSE
  /\ UNCHANGED <<catalog, pc, op, args, inflight, issued, outcome>>

ConnectionRestored ==
  /\ pc = "idle"
  /\ ~connUp
  /\ connUp' = TRUE
  /\ UNCHANGED <<catalog, pc, op, args, inflight, issued, outcome>>

Next ==
  \/ TablesCall \/ TablesReturn
  \/ TableInfoCall \/ TableInfoReturn
  \/ HasTable
  \/ ColumnsCall \/ ColumnsReturn
  \/ ColumnInfoCall \/ ColumnInfoReturn
  \/ HasColumn
  \/ PrimaryCall \/ PrimaryReturn
  \/ Finish
  \/ ConnectionLost \/ ConnectionRestored

Spec == Init /\ [][Next]_vars

\* ------------------------------------------------------------------------
\* What the catalog declares, read off the catalog directly
\* ------------------------------------------------------------------------
RelationsOfDb == {r.TABLE_NAME : r \in {x \in catalog.rels : x.TABLE_SCHEMA = CurrentDb}}
BaseTablesOfDb ==
  {r.TABLE_NAME : r \in {x \in catalog.rels : /\ x.TABLE_SCHEMA = CurrentDb
                                              /\ x.TABLE_TYPE = "BASE TABLE"}}
HasCol(t, c) == ColRow(CurrentDb, t, c) \in catalog.cols
DeclaredPrimary(t) == PrimaryCols(catalog, CurrentDb, t)
ForeignKeysOf(t, c) ==
  {k \in catalog.keys : /\ IsFk(k) /\ k.CONSTRAINT_SCHEMA = CurrentDb
                        /\ k.TABLE_NAME = t /\ k.COLUMN_NAME = c}

Done(name) == pc = "done" /\ op = name
Returned(name) == Done(name) /\ outcome.kind = "value"

\* the Column records of a settled columnInfo, whichever form was called
ColumnRecords == IF Truthy(args.column) THEN {outcome.val} ELSE outcome.val

\* what the other methods return on the same catalog
TableInfoNames ==
  UNION {{t.name : t \in o.val} :
           o \in {x \in TableInfoOutcomes(Execute(catalog, TableInfoQuery(Undefined)),
                                         Undefined) : x.kind = "value"}}
ColumnsNames(t) ==
  UNION {{p.column : p \in o.val} :
           o \in {x \in ColumnsOutcomes(Execute(catalog, ColumnsQuery(t))) :
                    x.kind = "value"}}
ColumnInfoNames(t) ==
  UNION {{r.name : r \in o.val} :
           o \in {x \in ColumnInfoOutcomes(Execute(catalog, ColumnInfoQuery(t, Undefined)),
                                          Undefined) : x.kind = "value"}}

\* ------------------------------------------------------------------------
\* Claims
\* ------------------------------------------------------------------------

\* C1: on a working connection tables() returns exactly the names n for
\* which hasTable(n) returns true.
C1_TablesAgreeWithHasTable ==
  (Done("tables") /\ connUp) =>
     /\ outcome.kind = "value"
     /\ outcome.val = {n \in RelNames : HasTableOutcome(n).val}

\* C2: hasColumn(T, C) returns true if and only if table T of the current
\* schema has a column named C.
C2_HasColumnIffColumnExists ==
  Done("hasColumn") => outcome = Val(HasCol(args.table, args.column))

\* C3: an operation invoked while the connection cannot execute queries
\* ends in an error, never in a normal result.
C3_ConnectionFailurePropagates ==
  (pc = "done" /\ ~connUp) => outcome.kind = "error"

\* C4: on a working connection, tableInfo(name) for a name that is no table
\* of the current schema and columnInfo(table, column) for a column that
\* does not exist do not end in a thrown fault.
C4_NotFoundIsNotAFault ==
  (/\ pc = "done"
   /\ connUp
   /\ \/ /\ op = "tableInfo"
         /\ Truthy(args.table)
         /\ args.table \notin BaseTablesOfDb
      \/ /\ op = "columnInfo"
         /\ Truthy(args.table)
         /\ Truthy(args.column)
         /\ ~HasCol(args.table, args.column))
  => outcome.kind # "error"

\* C5: for a column C of table T, columnInfo(T, C) returns a Column with
\* table T and name C whose is_primary_key is true exactly when C is a
\* declared primary-key column of T.
C5_ColumnInfoPrimaryKeyFlag ==
  (/\ Done("columnInfo")
   /\ connUp
   /\ Truthy(args.table)
   /\ Truthy(args.column)
   /\ HasCol(args.table, args.column))
  => /\ outcome.kind = "value"
     /\ outcome.val.table = args.table
     /\ outcome.val.name = args.column
     /\ outcome.val.is_primary_key = (args.column \in DeclaredPrimary(args.table))

\* C6: every Column that columnInfo returns carries the referenced table
\* and column of its foreign key, and NULL in both fields when the column
\* is no foreign key.
C6_ColumnInfoForeignKeyFields ==
  Returned("columnInfo") =>
     \A r \in ColumnRecords :
        IF ForeignKeysOf(r.table, r.name) = {}
        THEN r.foreign_key_table = NULL /\ r.foreign_key_column = NULL
        ELSE \E k \in ForeignKeysOf(r.table, r.name) :
                /\ r.foreign_key_table = k.REFERENCED_TABLE_NAME
                /\ r.foreign_key_column = k.REFERENCED_COLUMN_NAME

\* C7: primary(T) returns a column name only if it is a declared
\* primary-key column of T, returns one whenever T has a primary key and
\* the connection works, and ends in an error when T has no primary key.
C7_PrimaryIsDeclaredKey ==
  Done("primary") =>
     /\ outcome.kind = "value" => outcome.val \in DeclaredPrimary(args.table)
     /\ (DeclaredPrimary(args.table) # {} /\ connUp) => outcome.kind = "value"
     /\ DeclaredPrimary(args.table) = {} => outcome.kind = "error"

\* primary() returned the key column of a table that also has a foreign
\* key index on another column
C7_Witness ==
  /\ Returned("primary")
  /\ \E k \in catalog.keys :
        /\ IsFk(k) /\ k.CONSTRAINT_SCHEMA = CurrentDb
        /\ k.TABLE_NAME = args.table /\ k.COLUMN_NAME # outcome.val

\* C8: columns(T) and columnInfo(T) return the same set of column names.
C8_ColumnsAgreeWithColumnInfo ==
  /\ Returned("columns") =>
        {p.column : p \in outcome.val} = ColumnInfoNames(args.table)
  /\ (Returned("columnInfo") /\ ~Truthy(args.column)) =>
        {r.name : r \in outcome.val} = ColumnsNames(args.table)

\* columns(T) returned the two columns of a table that shares the current
\* schema with another relation, one column with a key and one without
C8_Witness ==
  /\ Returned("columns")
  /\ Truthy(args.table)
  /\ Cardinality(outcome.val) = 2
  /\ Cardinality(RelationsOfDb) = 2
  /\ \E k \in catalog.keys : k.CONSTRAINT_SCHEMA = CurrentDb /\ k.TABLE_NAME = args.table
  /\ \E p \in outcome.val :
        ~\E k \in catalog.keys : /\ k.CONSTRAINT_SCHEMA = CurrentDb
                                 /\ k.COLUMN_NAME = p.column

\* C9 (as stated): every Column of columnInfo() and every pair of columns()
\* has a table that is the name of a Table returned by tableInfo().
C9_ColumnTableIsListedTable ==
  /\ Returned("columnInfo") => \A r \in ColumnRecords : r.table \in TableInfoNames
  /\ Returned("columns") => \A p \in outcome.val : p.table \in TableInfoNames

\* C9 (amended): every Column of columnInfo() and every pair of columns()
\* has a table that is the name of a base table or view of the current
\* schema, and tableInfo() returns a Table of that name when the relation
\* is a base table.
C9_ColumnTableIsRelationOfDb ==
  LET ok(t) == /\ t \in RelationsOfDb
               /\ t \in BaseTablesOfDb => t \in TableInfoNames
  IN  /\ Returned("columnInfo") => \A r \in ColumnRecords : ok(r.table)
      /\ Returned("columns") => \A p \in outcome.val : ok(p.table)

\* columnInfo() returned the columns of a view of the current schema while
\* another schema holds a table whose name the current schema does not use
C9_Witness ==
  /\ Returned("columnInfo")
  /\ ~Truthy(args.table)
  /\ ~Truthy(args.column)
  /\ \E r \in outcome.val : r.table \notin BaseTablesOfDb
  /\ \E x \in catalog.rels :
        x.TABLE_SCHEMA # CurrentDb /\ x.TABLE_NAME \notin RelationsOfDb

\* C10: a completed invocation has issued exactly one query to the
\* connection.
C10_ExactlyOneQuery ==
  pc = "done" => issued = 1
====
